---- MODULE Spec2Model ----
(***************************************************************************)
(* Model of the two pure text components of pdf-ai-suite:                  *)
(*   - parse_document_structure  (backend/app/api/routes.py)               *)
(*   - compare_documents         (backend/app/services/document_compare.py)*)
(* Text is a sequence of one-character strings; "\n" is the line feed.     *)
(***************************************************************************)
EXTENDS Integers, Sequences, FiniteSets, TLC

\* ------------------------------------------------------------------ bounds
\* Largest number of lines of a markdown input of the parser.
MaxLines == 4

\* Largest number of words of a text of the word-level diff.
MaxWords == 3

\* Number of extract requests served by the process.
NumRequests == 3

\* Largest page count and table count handed to the summary helper.
MaxPages == 3

MaxTables == 2

\* Largest number of files of one batch request.
MaxFiles == 3

\* ------------------------------------------------------------ text helpers
NL == "\n"

\* str.isspace() for one character (the characters the inputs can hold).
IsSpace(c) == c \in {" ", "\t"}

\* '\n'.join(parts): parts is a sequence of character sequences.
RECURSIVE JoinNL(_)
JoinNL(parts) ==
    IF Len(parts) = 0 THEN <<>>
    ELSE IF Len(parts) = 1 THEN parts[1]
    ELSE parts[1] \o <<NL>> \o JoinNL(Tail(parts))

\* str.split('\n'): always at least one piece, the last may be empty.
RECURSIVE SplitNLFrom(_, _, _)
SplitNLFrom(text, k, cur) ==
    IF k > Len(text) THEN <<cur>>
    ELSE IF text[k] = NL THEN <<cur>> \o SplitNLFrom(text, k + 1, <<>>)
    ELSE SplitNLFrom(text, k + 1, Append(cur, text[k]))

SplitNL(text) == SplitNLFrom(text, 1, <<>>)

Last(q) == q[Len(q)]

\* The sequences of qs, one after the other.
RECURSIVE Concat(_)
Concat(qs) == IF Len(qs) = 0 THEN <<>> ELSE qs[1] \o Concat(Tail(qs))

\* Length of the run of characters of the set chars, starting at position k.
RECURSIVE RunLen(_, _, _)
RunLen(line, k, chars) ==
    IF k <= Len(line) /\ line[k] \in chars THEN 1 + RunLen(line, k + 1, chars) ELSE 0

SpaceChars == {" ", "\t"}
DigitChars == {"0", "1", "2", "3", "4", "5", "6", "7", "8", "9"}

\* line.startswith(prefix)
StartsWith(line, prefix) ==
    /\ Len(line) >= Len(prefix)
    /\ SubSeq(line, 1, Len(prefix)) = prefix

\* line.strip() == ''
IsBlank(line) == \A k \in 1..Len(line) : IsSpace(line[k])

\* The tail  \s+(.+)$  of the three regular expressions, tried at position k
\* (the first character after the marker).  \s+ is greedy and gives one
\* character back when the white space runs to the end of the line.
\* The result is the position where group (.+) starts, or 0 for no match.
TextStart(line, k) ==
    LET s == RunLen(line, k, SpaceChars)
    IN  IF s = 0 THEN 0
        ELSE IF k + s <= Len(line) THEN k + s
        ELSE IF s >= 2 THEN k + s - 1
        ELSE 0

\* A heading pattern that drops exactly one separating character.
HeadingMatchOneSpace(line) ==
    LET h == RunLen(line, 1, {"#"})
        ok == h >= 1 /\ h <= 6 /\ h + 2 <= Len(line) /\ IsSpace(line[h + 1])
    IN  IF ~ok THEN [matched |-> FALSE, level |-> 0, text |-> <<>>]
        ELSE [matched |-> TRUE, level |-> h, text |-> SubSeq(line, h + 2, Len(line))]

\* re.match(r'^(#{1,6})\s+(.+)$', line)
HeadingMatch(line) ==
    LET h == RunLen(line, 1, {"#"})
        t == IF h >= 1 /\ h <= 6 THEN TextStart(line, h + 1) ELSE 0
    IN  IF t = 0 THEN [matched |-> FALSE, level |-> 0, text |-> <<>>]
        ELSE [matched |-> TRUE, level |-> h, text |-> SubSeq(line, t, Len(line))]

\* re.match(r'^[\s]*[-*+]\s+(.+)$', line) or re.match(r'^[\s]*\d+\.\s+(.+)$', line)
ListMatch(line) ==
    LET p == RunLen(line, 1, SpaceChars)
        d == RunLen(line, p + 1, DigitChars)
        bullet == /\ p + 1 <= Len(line)
                  /\ line[p + 1] \in {"-", "*", "+"}
                  /\ TextStart(line, p + 2) # 0
        numbered == /\ d >= 1
                    /\ p + d + 1 <= Len(line)
                    /\ line[p + d + 1] = "."
                    /\ TextStart(line, p + d + 2) # 0
    IN  bullet \/ numbered

\* The backquote character (U+0060), which a TLA+ string cannot hold.
Backquote == "BQ"

Fence == <<Backquote, Backquote, Backquote>>

\* line.startswith of three backticks (routes.py 501)
IsFence(line) == StartsWith(line, Fence)

\* ------------------------------------------------- parse_document_structure
\* The loop's local state: [elements, current_para, in_code_block, in_list].
Element(type, para) == [type |-> type, content |-> JoinNL(para)]

ParserStart ==
    [elements |-> <<>>, current_para |-> <<>>, in_code_block |-> FALSE, in_list |-> FALSE]

\* Heading levels counted from zero.
HeadingTypeFromZero(level) == "heading_" \o ToString(level - 1)

\* f"heading_{level}"
HeadingType(level) == "heading_" \o ToString(level)

\* "list" if in_list else "paragraph"
ElemType(inList) == IF inList THEN "list" ELSE "paragraph"

\* A fence step that opens a code block without flushing the buffer first.
FenceStepNoFlush(s, line) ==
    IF s.in_code_block
    THEN [s EXCEPT !.elements = Append(@, [type |-> "code_block", content |-> JoinNL(s.current_para)]),
                   !.current_para = <<>>,
                   !.in_code_block = FALSE]
    ELSE [s EXCEPT !.current_para = <<>>,
                   !.in_code_block = TRUE]

\* routes.py 501-511: a fence line closes or opens a code block.
FenceStep(s, line) ==
    IF s.in_code_block
    THEN [s EXCEPT !.elements = Append(@, Element("code_block", s.current_para)),
                   !.current_para = <<>>,
                   !.in_code_block = FALSE]
    ELSE [s EXCEPT !.elements = IF s.current_para # <<>>
                                THEN Append(@, Element("paragraph", s.current_para))
                                ELSE @,
                   !.current_para = <<>>,
                   !.in_code_block = TRUE]

\* A code step that skips blank lines.
CodeStepSkipBlank(s, line) ==
    IF IsBlank(line) THEN s ELSE [s EXCEPT !.current_para = Append(@, line)]

\* routes.py 513-515: a line inside a code block is kept as it is.
CodeStep(s, line) == [s EXCEPT !.current_para = Append(@, line)]

\* routes.py 518-525: a heading flushes the buffer and is emitted at once.
HeadingStep(s, line) ==
    LET m == HeadingMatch(line)
        flushed == IF s.current_para # <<>>
                   THEN Append(s.elements, Element("paragraph", s.current_para))
                   ELSE s.elements
    IN  [s EXCEPT !.elements = Append(flushed, [type |-> HeadingType(m.level), content |-> m.text]),
                  !.current_para = <<>>]

\* routes.py 528-535: a list line enters or continues the list.
ListStep(s, line) ==
    LET flush == s.current_para # <<>> /\ ~s.in_list
    IN  [s EXCEPT !.elements = IF flush THEN Append(@, Element("paragraph", s.current_para)) ELSE @,
                  !.current_para = Append(IF flush THEN <<>> ELSE @, line),
                  !.in_list = TRUE]

\* routes.py 537-541: a blank line in the list state ends the list.
ListBlankStep(s, line) ==
    [s EXCEPT !.elements = Append(@, Element("list", s.current_para)),
              !.current_para = <<>>,
              !.in_list = FALSE]

\* routes.py 544-550: any other line continues or ends the paragraph.
RegularStep(s, line) ==
    IF ~IsBlank(line) THEN [s EXCEPT !.current_para = Append(@, line)]
    ELSE IF s.current_para # <<>>
    THEN [s EXCEPT !.elements = Append(@, Element(ElemType(s.in_list), s.current_para)),
                   !.current_para = <<>>,
                   !.in_list = FALSE]
    ELSE s

\* A final step that emits the buffer even when it is empty.
FinalStepAlways(s) ==
    Append(s.elements, [type |-> ElemType(s.in_list), content |-> JoinNL(s.current_para)])

\* routes.py 553-557: the pending buffer becomes the final element.
FinalStep(s) ==
    IF s.current_para # <<>>
    THEN Append(s.elements, Element(ElemType(s.in_list), s.current_para))
    ELSE s.elements

\* Which branch of the loop body takes the line.
Branch(s, line) ==
    IF IsFence(line) THEN "fence"
    ELSE IF s.in_code_block THEN "code"
    ELSE IF HeadingMatch(line).matched THEN "heading"
    ELSE IF ListMatch(line) THEN "list"
    ELSE IF s.in_list /\ IsBlank(line) THEN "list_blank"
    ELSE "regular"

\* One iteration of the loop body (routes.py 499-550).
ParseLine(s, line) ==
    CASE Branch(s, line) = "fence" -> FenceStep(s, line)
      [] Branch(s, line) = "code" -> CodeStep(s, line)
      [] Branch(s, line) = "heading" -> HeadingStep(s, line)
      [] Branch(s, line) = "list" -> ListStep(s, line)
      [] Branch(s, line) = "list_blank" -> ListBlankStep(s, line)
      [] OTHER -> RegularStep(s, line)

RECURSIVE ParseLoop(_, _, _)
ParseLoop(s, ls, k) ==
    IF k > Len(ls) THEN s ELSE ParseLoop(ParseLine(s, ls[k]), ls, k + 1)

\* The whole function, as one value: the elements returned for a text.
parse_document_structure(text) == FinalStep(ParseLoop(ParserStart, SplitNL(text), 1))

\* ====================================================== compare_documents
\* ------------------------------------------------------------------ bounds
\* Largest number of lines of a compared document.
MaxDocLines == 3

\* --------------------------------------------------------- str operations
Min(S) == CHOOSE x \in S : \A y \in S : x <= y
Max(S) == CHOOSE x \in S : \A y \in S : x >= y

\* The line boundaries str.splitlines() knows that the inputs can hold.
LineBreaks == {"\n", "\r"}

\* str.splitlines(): pieces between line boundaries ("\r\n" is one boundary),
\* without a last empty piece.
RECURSIVE SplitlinesFrom(_, _, _)
SplitlinesFrom(text, k, cur) ==
    IF k > Len(text) THEN (IF cur = <<>> THEN <<>> ELSE <<cur>>)
    ELSE IF text[k] \in LineBreaks
    THEN LET step == IF text[k] = "\r" /\ k < Len(text) /\ text[k + 1] = "\n" THEN 2 ELSE 1
         IN  <<cur>> \o SplitlinesFrom(text, k + step, <<>>)
    ELSE SplitlinesFrom(text, k + 1, Append(cur, text[k]))

Splitlines(text) == SplitlinesFrom(text, 1, <<>>)

\* str.split(sep) for a one-character separator.
RECURSIVE SplitFrom(_, _, _, _)
SplitFrom(text, sep, k, cur) ==
    IF k > Len(text) THEN <<cur>>
    ELSE IF text[k] = sep THEN <<cur>> \o SplitFrom(text, sep, k + 1, <<>>)
    ELSE SplitFrom(text, sep, k + 1, Append(cur, text[k]))

Split(text, sep) == SplitFrom(text, sep, 1, <<>>)

\* str.replace(ch, '')
Remove(text, ch) == SelectSeq(text, LAMBDA c : c # ch)

DigitSeq == <<"0", "1", "2", "3", "4", "5", "6", "7", "8", "9">>

\* '{}'.format(n) for a natural number
RECURSIVE Format(_)
Format(n) ==
    IF n < 10 THEN <<DigitSeq[n + 1]>>
    ELSE Format(n \div 10) \o <<DigitSeq[(n % 10) + 1]>>

DigitValue(c) == CHOOSE d \in 0..9 : DigitSeq[d + 1] = c

\* int(text) raises ValueError unless text is a numeral.
IsNumeral(text) == Len(text) >= 1 /\ \A k \in 1..Len(text) : text[k] \in DigitChars

RECURSIVE int(_)
int(text) ==
    IF Len(text) = 1 THEN DigitValue(text[1])
    ELSE 10 * int(SubSeq(text, 1, Len(text) - 1)) + DigitValue(text[Len(text)])

\* ---------------------------------------------------------------- difflib
\* difflib.SequenceMatcher(None, a, b) over sequences shorter than 200
\* elements (no junk, no "popular" elements).  Positions are counted from 0
\* as in difflib; a[i + 1] is element i.

RECURSIVE MatchLen(_, _, _, _, _, _)
MatchLen(a, b, i0, j0, ahi, bhi) ==
    IF i0 < ahi /\ j0 < bhi /\ a[i0 + 1] = b[j0 + 1]
    THEN 1 + MatchLen(a, b, i0 + 1, j0 + 1, ahi, bhi)
    ELSE 0

\* find_longest_match: the longest block a[i:i+k] = b[j:j+k] in the ranges,
\* of those the one starting earliest in a, of those the one starting earliest
\* in b; (alo, blo, 0) when nothing matches.
find_longest_match(a, b, alo, ahi, blo, bhi) ==
    LET cand == {p \in (alo..(ahi - 1)) \X (blo..(bhi - 1)) : a[p[1] + 1] = b[p[2] + 1]}
        sz == [p \in cand |-> MatchLen(a, b, p[1], p[2], ahi, bhi)]
        kmax == Max({sz[p] : p \in cand})
        besti == Min({p[1] : p \in {q \in cand : sz[q] = kmax}})
        bestj == Min({p[2] : p \in {q \in cand : sz[q] = kmax /\ q[1] = besti}})
    IN  IF cand = {} THEN <<alo, blo, 0>> ELSE <<besti, bestj, kmax>>

\* The matching blocks of the ranges, sorted (get_matching_blocks, first loop).
RECURSIVE Blocks(_, _, _, _, _, _)
Blocks(a, b, alo, ahi, blo, bhi) ==
    LET x == find_longest_match(a, b, alo, ahi, blo, bhi)
        left == IF alo < x[1] /\ blo < x[2] THEN Blocks(a, b, alo, x[1], blo, x[2]) ELSE <<>>
        right == IF x[1] + x[3] < ahi /\ x[2] + x[3] < bhi
                 THEN Blocks(a, b, x[1] + x[3], ahi, x[2] + x[3], bhi)
                 ELSE <<>>
    IN  IF x[3] = 0 THEN <<>> ELSE left \o <<x>> \o right

\* Adjacent blocks collapsed into one (get_matching_blocks, second loop).
RECURSIVE Collapse(_, _, _)
Collapse(blocks, k, cur) ==
    IF k > Len(blocks) THEN (IF cur[3] # 0 THEN <<cur>> ELSE <<>>)
    ELSE IF cur[1] + cur[3] = blocks[k][1] /\ cur[2] + cur[3] = blocks[k][2]
    THEN Collapse(blocks, k + 1, <<cur[1], cur[2], cur[3] + blocks[k][3]>>)
    ELSE (IF cur[3] # 0 THEN <<cur>> ELSE <<>>) \o Collapse(blocks, k + 1, blocks[k])

get_matching_blocks(a, b) ==
    Collapse(Blocks(a, b, 0, Len(a), 0, Len(b)), 1, <<0, 0, 0>>) \o << <<Len(a), Len(b), 0>> >>

RECURSIVE SumSizes(_)
SumSizes(blocks) == IF blocks = <<>> THEN 0 ELSE blocks[1][3] + SumSizes(Tail(blocks))

\* ratio() as the fraction <<2 * matches, len(a) + len(b)>>; 1.0 when both
\* sequences are empty.
ratio(a, b) ==
    IF Len(a) + Len(b) = 0 THEN <<1, 1>>
    ELSE <<2 * SumSizes(get_matching_blocks(a, b)), Len(a) + Len(b)>>

Opcode(tag, i1, i2, j1, j2) == [tag |-> tag, i1 |-> i1, i2 |-> i2, j1 |-> j1, j2 |-> j2]

RECURSIVE OpcodesFrom(_, _, _, _)
OpcodesFrom(blocks, k, i0, j0) ==
    IF k > Len(blocks) THEN <<>>
    ELSE LET ai == blocks[k][1]
             bj == blocks[k][2]
             size == blocks[k][3]
             tag == IF i0 < ai /\ j0 < bj THEN "replace"
                    ELSE IF i0 < ai THEN "delete"
                    ELSE IF j0 < bj THEN "insert"
                    ELSE ""
         IN  (IF tag # "" THEN <<Opcode(tag, i0, ai, j0, bj)>> ELSE <<>>)
             \o (IF size # 0 THEN <<Opcode("equal", ai, ai + size, bj, bj + size)>> ELSE <<>>)
             \o OpcodesFrom(blocks, k + 1, ai + size, bj + size)

get_opcodes(a, b) == OpcodesFrom(get_matching_blocks(a, b), 1, 0, 0)

\* get_grouped_opcodes: the first and last equal ranges cut to n lines.
TrimEnds(codes, n) ==
    LET c0 == IF codes = <<>> THEN <<Opcode("equal", 0, 1, 0, 1)>> ELSE codes
        first == c0[1]
        c1 == IF first.tag = "equal"
              THEN [c0 EXCEPT ![1] = Opcode("equal", Max({first.i1, first.i2 - n}), first.i2,
                                            Max({first.j1, first.j2 - n}), first.j2)]
              ELSE c0
        last == c1[Len(c1)]
    IN  IF last.tag = "equal"
        THEN [c1 EXCEPT ![Len(c1)] = Opcode("equal", last.i1, Min({last.i2, last.i1 + n}),
                                            last.j1, Min({last.j2, last.j1 + n}))]
        ELSE c1

\* get_grouped_opcodes: the loop that cuts the opcodes into groups.
RECURSIVE GroupsFrom(_, _, _, _)
GroupsFrom(codes, k, group, n) ==
    IF k > Len(codes)
    THEN (IF group # <<>> /\ ~(Len(group) = 1 /\ group[1].tag = "equal") THEN <<group>> ELSE <<>>)
    ELSE LET c == codes[k]
         IN  IF c.tag = "equal" /\ c.i2 - c.i1 > n + n
             THEN <<Append(group, Opcode("equal", c.i1, Min({c.i2, c.i1 + n}),
                                         c.j1, Min({c.j2, c.j1 + n})))>>
                  \o GroupsFrom(codes, k + 1,
                                <<Opcode("equal", Max({c.i1, c.i2 - n}), c.i2,
                                         Max({c.j1, c.j2 - n}), c.j2)>>, n)
             ELSE GroupsFrom(codes, k + 1, Append(group, c), n)

get_grouped_opcodes(a, b, n) == GroupsFrom(TrimEnds(get_opcodes(a, b), n), 1, <<>>, n)

\* _format_range_unified(start, stop)
format_range_unified(start, stop) ==
    LET length == stop - start
    IN  IF length = 1 THEN Format(start + 1)
        ELSE Format(IF length = 0 THEN start ELSE start + 1) \o <<",">> \o Format(length)

Prefixed(ch, ls) == [k \in 1..Len(ls) |-> <<ch>> \o ls[k]]

\* The lines unified_diff yields for one opcode.
OpcodeLines(a, b, c) ==
    IF c.tag = "equal" THEN Prefixed(" ", SubSeq(a, c.i1 + 1, c.i2))
    ELSE (IF c.tag \in {"replace", "delete"} THEN Prefixed("-", SubSeq(a, c.i1 + 1, c.i2)) ELSE <<>>)
         \o (IF c.tag \in {"replace", "insert"} THEN Prefixed("+", SubSeq(b, c.j1 + 1, c.j2)) ELSE <<>>)

\* The lines unified_diff yields for one group: the hunk header, then the lines.
GroupLines(a, b, group) ==
    LET first == group[1]
        last == group[Len(group)]
        header == <<"@", "@", " ", "-">> \o format_range_unified(first.i1, last.i2)
                  \o <<" ", "+">> \o format_range_unified(first.j1, last.j2)
                  \o <<" ", "@", "@">>
    IN  <<header>> \o Concat([k \in 1..Len(group) |-> OpcodeLines(a, b, group[k])])

\* difflib.unified_diff(a, b, fromfile, tofile, lineterm='', n=n); the file
\* names are one token each.
unified_diff(a, b, fromfile, tofile, n) ==
    LET groups == get_grouped_opcodes(a, b, n)
    IN  IF groups = <<>> THEN <<>>
        ELSE << <<"-", "-", "-", " ", fromfile>>, <<"+", "+", "+", " ", tofile>> >>
             \o Concat([k \in 1..Len(groups) |-> GroupLines(a, b, groups[k])])


\* ------------------------------------------------------ compare_documents
\* Optional[str] = None
None == "None"

\* doc1_name, doc2_name: the default arguments, one token each.
Doc1Name == "Document 1"
Doc2Name == "Document 2"

TextDiff(type, line_number, content) ==
    [type |-> type, line_number |-> line_number, content |-> content, old_content |-> None]

\* document_compare.py 83-87: the loop's locals.
LoopStart == [diffs |-> <<>>, added |-> 0, removed |-> 0, changed |-> 0, line_num |-> 0]

\* document_compare.py 90-98: a hunk header sets the counter to the start line
\* of the '+' side; a header that cannot be read leaves it as it is.
HunkStep(c, line) ==
    LET parts == Split(line, " ")
        start == IF Len(parts) >= 3 THEN Remove(Split(parts[3], ",")[1], "+") ELSE <<>>
    IN  IF IsNumeral(start) THEN [c EXCEPT !.line_num = int(start)] ELSE c

\* document_compare.py 99-100: file header lines are skipped.
FileHeaderStep(c, line) == c

\* A removed step that advances the counter like an added step.
RemovedStepAdvances(c, line) ==
    [c EXCEPT !.diffs = Append(@, TextDiff("removed", c.line_num, Tail(line))),
              !.removed = @ + 1,
              !.line_num = @ + 1]

\* A removed step that keeps the '-' prefix in the content.
RemovedStepKeepPrefix(c, line) ==
    [c EXCEPT !.diffs = Append(@, [type |-> "removed", line_number |-> c.line_num,
                                   content |-> line, old_content |-> None]),
              !.removed = @ + 1]

\* document_compare.py 101-107
RemovedStep(c, line) ==
    [c EXCEPT !.diffs = Append(@, TextDiff("removed", c.line_num, Tail(line))),
              !.removed = @ + 1]

\* An added step that records the line without counting it.
AddedStepNoCount(c, line) ==
    [c EXCEPT !.diffs = Append(@, TextDiff("added", c.line_num, Tail(line))),
              !.line_num = @ + 1]

\* document_compare.py 108-115
AddedStep(c, line) ==
    [c EXCEPT !.diffs = Append(@, TextDiff("added", c.line_num, Tail(line))),
              !.added = @ + 1,
              !.line_num = @ + 1]

\* A context step that reports the common line as an unchanged record.
ContextStepRecords(c, line) ==
    [c EXCEPT !.diffs = Append(@, TextDiff("unchanged", c.line_num, Tail(line))),
              !.line_num = @ + 1]

\* document_compare.py 116-117
ContextStep(c, line) == [c EXCEPT !.line_num = @ + 1]

\* Which branch of the loop body takes the diff line (document_compare.py 90-116).
DiffBranch(line) ==
    IF StartsWith(line, <<"@", "@">>) THEN "hunk"
    ELSE IF StartsWith(line, <<"-", "-", "-">>) \/ StartsWith(line, <<"+", "+", "+">>) THEN "file"
    ELSE IF StartsWith(line, <<"-">>) THEN "removed"
    ELSE IF StartsWith(line, <<"+">>) THEN "added"
    ELSE "context"

DiffLine(c, line) ==
    CASE DiffBranch(line) = "hunk" -> HunkStep(c, line)
      [] DiffBranch(line) = "file" -> FileHeaderStep(c, line)
      [] DiffBranch(line) = "removed" -> RemovedStep(c, line)
      [] DiffBranch(line) = "added" -> AddedStep(c, line)
      [] OTHER -> ContextStep(c, line)

RECURSIVE DiffLoop(_, _, _)
DiffLoop(c, differ, k) ==
    IF k > Len(differ) THEN c ELSE DiffLoop(DiffLine(c, differ[k]), differ, k + 1)

\* A similarity that is not scaled to a percentage.
SimilarityUnscaled(t1, t2) == <<ratio(t1, t2)[1], 100 * ratio(t1, t2)[2]>>

\* document_compare.py 70-72: the similarity, as the fraction r with
\* similarity = 100 * r[1] / r[2].
Similarity(t1, t2) == ratio(t1, t2)

\* A threshold test that also passes at the bound itself.
AboveOrEqual(r, bound) == 100 * r[1] >= bound * r[2]

\* similarity > bound
Above(r, bound) == 100 * r[1] > bound * r[2]

\* round(similarity, 2), in hundredths of a percent (100.0 is 10000); a value
\* half way between two hundredths goes up.
Round2(r) == (2 * 10000 * r[1] + r[2]) \div (2 * r[2])

\* document_compare.py 119-129
Summary(r, added, removed) ==
    (IF Above(r, 95) THEN "Documents are nearly identical."
     ELSE IF Above(r, 80) THEN "Documents are similar with minor differences."
     ELSE IF Above(r, 50) THEN "Documents have moderate differences."
     ELSE "Documents are substantially different.")
    \o " " \o ToString(added) \o " lines added, " \o ToString(removed) \o " lines removed."

\* document_compare.py 131-142
ComparisonResult(lines1, lines2, r, c) ==
    [doc1_name |-> Doc1Name,
     doc2_name |-> Doc2Name,
     similarity_percent |-> Round2(r),
     total_lines_doc1 |-> Len(lines1),
     total_lines_doc2 |-> Len(lines2),
     added_lines |-> c.added,
     removed_lines |-> c.removed,
     changed_lines |-> c.changed,
     diffs |-> c.diffs,
     summary |-> Summary(r, c.added, c.removed)]

\* document_compare.py 75-81
Differ(lines1, lines2, n) == unified_diff(lines1, lines2, Doc1Name, Doc2Name, n)

\* The whole function as one value.
compare_documents(t1, t2, n) ==
    LET l1 == Splitlines(t1)
        l2 == Splitlines(t2)
    IN  ComparisonResult(l1, l2, Similarity(t1, t2), DiffLoop(LoopStart, Differ(l1, l2, n), 1))

\* ------------------------------------------------- get_word_level_diff
\* The characters str.split() takes for white space (those the inputs hold).
Whitespace == {" ", "\t", "\n", "\r"}

\* str.split(): the runs of characters between white space, none of them empty.
RECURSIVE SplitWordsFrom(_, _, _)
SplitWordsFrom(text, k, cur) ==
    LET piece == IF cur = <<>> THEN <<>> ELSE <<cur>>
    IN  IF k > Len(text) THEN piece
        ELSE IF text[k] \in Whitespace THEN piece \o SplitWordsFrom(text, k + 1, <<>>)
        ELSE SplitWordsFrom(text, k + 1, Append(cur, text[k]))

SplitWords(text) == SplitWordsFrom(text, 1, <<>>)

\* ' '.join(parts)
RECURSIVE JoinSpace(_)
JoinSpace(parts) ==
    IF Len(parts) = 0 THEN <<>>
    ELSE IF Len(parts) = 1 THEN parts[1]
    ELSE parts[1] \o <<" ">> \o JoinSpace(Tail(parts))

\* words[lo:hi] joined by one space
Slice(words, lo, hi) == JoinSpace(SubSeq(words, lo + 1, hi))

\* A replace step that counts positions from one.
ReplaceStepOneBased(changes, words1, words2, op) ==
    Append(changes, [type |-> "changed",
                     old |-> Slice(words1, op.i1, op.i2),
                     new |-> Slice(words2, op.j1, op.j2),
                     position |-> op.i1 + 1])

\* document_compare.py 179-185
ReplaceStep(changes, words1, words2, op) ==
    Append(changes, [type |-> "changed",
                     old |-> Slice(words1, op.i1, op.i2),
                     new |-> Slice(words2, op.j1, op.j2),
                     position |-> op.i1])

\* document_compare.py 186-191
DeleteStep(changes, words1, words2, op) ==
    Append(changes, [type |-> "removed",
                     content |-> Slice(words1, op.i1, op.i2),
                     position |-> op.i1])

\* document_compare.py 192-197
InsertStep(changes, words1, words2, op) ==
    Append(changes, [type |-> "added",
                     content |-> Slice(words2, op.j1, op.j2),
                     position |-> op.j1])

\* document_compare.py 177-178
EqualStep(changes, words1, words2, op) == changes

\* One turn of the loop of document_compare.py 176-197.
WordStep(changes, words1, words2, op) ==
    CASE op.tag = "equal" -> EqualStep(changes, words1, words2, op)
      [] op.tag = "replace" -> ReplaceStep(changes, words1, words2, op)
      [] op.tag = "delete" -> DeleteStep(changes, words1, words2, op)
      [] op.tag = "insert" -> InsertStep(changes, words1, words2, op)

RECURSIVE WordLoop(_, _, _, _, _)
WordLoop(changes, words1, words2, ops, k) ==
    IF k > Len(ops) THEN changes
    ELSE WordLoop(WordStep(changes, words1, words2, ops[k]), words1, words2, ops, k + 1)

\* The whole function as one value.
get_word_level_diff(t1, t2) ==
    LET words1 == SplitWords(t1)
        words2 == SplitWords(t2)
    IN  WordLoop(<<>>, words1, words2, get_opcodes(words1, words2), 1)

\* ------------------------------------------------------- compare inputs
\* The lines the documents are made of: two plain lines and the two lines
\* that begin like a file header of the unified diff.
DocLines == { <<"a">>, <<"b">>, <<"+", "+">>, <<"-", "-">> }

Texts == { JoinNL(ls) : ls \in UNION { [1..m -> DocLines] : m \in 0..MaxDocLines } }

\* context_lines: none, one, and the default.
ContextChoices == {0, 1, 3}

NoComparison == [summary |-> ""]

IdleCompare == [lines1 |-> <<>>, lines2 |-> <<>>, similarity |-> <<1, 1>>, differ |-> <<>>,
                pos |-> 0, loop |-> LoopStart]

\* ------------------------------------------------------ word-diff inputs
Words == { <<"a">>, <<"b">>, <<"c">>, <<"x">> }

WordSeqs == UNION { [1..m -> Words] : m \in 0..MaxWords }

\* The two ways the words of a text are laid out: one space between words,
\* or a line feed and a space between them with white space at both ends.
Layouts == {"plain", "padded"}

RECURSIVE JoinSep(_, _)
JoinSep(parts, sep) ==
    IF Len(parts) = 0 THEN <<>>
    ELSE IF Len(parts) = 1 THEN parts[1]
    ELSE parts[1] \o sep \o JoinSep(Tail(parts), sep)

LayOut(words, layout) ==
    IF layout = "plain" THEN JoinSep(words, <<" ">>)
    ELSE <<"\t">> \o JoinSep(words, <<"\n", " ">>) \o <<" ">>

WordTexts(layout) == { LayOut(words, layout) : words \in WordSeqs }

IdleWords == [words1 |-> <<>>, words2 |-> <<>>, opcodes |-> <<>>, pos |-> 0, changes |-> <<>>]

\* ------------------------------------------------------ extractor objects
\* None, for a reference to an object; objects are numbered from 1.
Unset == 0

Requests == 1..NumRequests

\* DocumentExtractor.__init__ (extractor.py 94-96)
DocumentExtractor == [converter |-> Unset]

\* A request before its handler reaches get_extractor.
NewRequest == [at |-> "handler", extractor |-> Unset, built |-> Unset, used |-> Unset]

\* ------------------------------------------------------ the LLM helpers
\* config.py 6-20: the fields Settings declares.
SettingsFields ==
    { "upload_dir", "output_dir", "max_file_size_mb", "enable_ocr",
      "default_output_format", "redis_url", "debug" }

\* The environment variables an operator may set to configure a key.
KeyVariables == { "ANTHROPIC_API_KEY", "OPENAI_API_KEY" }

\* The field an environment variable would fill (names match without case).
FieldOfVariable(name) ==
    IF name = "ANTHROPIC_API_KEY" THEN "anthropic_api_key" ELSE "openai_api_key"

\* config.py 26-28: Settings() holds its declared fields, each from the
\* environment when a variable of its name is set and from its default
\* otherwise; variables that name no field are not read.
Settings(env) ==
    [f \in SettingsFields |->
        IF \E v \in env : FieldOfVariable(v) = f THEN "from environment" ELSE "default"]

HasAttr(obj, name) == name \in DOMAIN obj

Raised(exception) == [kind |-> "raised", exception |-> exception]

Returned(value) == [kind |-> "returned", value |-> value]

\* summarizer.py 37, ocr_correction.py 96:
\*   not settings.anthropic_api_key and not settings.openai_api_key
\* Reading an attribute the object does not have raises AttributeError; the
\* second attribute is read only when the first is empty.
KeysTest(settings) ==
    IF ~HasAttr(settings, "anthropic_api_key") THEN "AttributeError"
    ELSE IF settings["anthropic_api_key"] # "" THEN "keys"
    ELSE IF ~HasAttr(settings, "openai_api_key") THEN "AttributeError"
    ELSE IF settings["openai_api_key"] # "" THEN "keys"
    ELSE "no keys"

\* What the hosted model does with the request.
Replies == { "http error", "not json", "object", "fenced object", "scalar" }

\* summarizer.py 73-85, ocr_correction.py 134-147: the call, then the fence
\* stripping and json.loads of its text.
Decoded(reply) ==
    CASE reply = "http error" -> Raised("HTTPStatusError")
      [] reply = "not json" -> Raised("JSONDecodeError")
      [] reply \in {"object", "fenced object"} -> Returned("object")
      [] reply = "scalar" -> Returned("scalar")

\* summarizer.py 39-45
BasicSummary(num_pages, n_tables) ==
    [summary |-> "Document with " \o ToString(num_pages) \o " pages and "
                 \o ToString(n_tables) \o " tables.",
     key_points |-> <<>>,
     tables_summary |-> <<>>,
     figures_mentioned |-> <<>>,
     important_numbers |-> <<>>]

\* summarizer.py 87-91
FallbackSummary(num_pages, exception) ==
    [summary |-> "Document with " \o ToString(num_pages) \o " pages.",
     key_points |-> <<>>,
     error |-> exception]

\* summarizer.py 19-91
create_concise_summary(settings, num_pages, n_tables, reply) ==
    CASE KeysTest(settings) = "AttributeError" -> Raised("AttributeError")
      [] KeysTest(settings) = "no keys" -> Returned(BasicSummary(num_pages, n_tables))
      [] OTHER ->
            IF Decoded(reply).kind = "raised"
            THEN Returned(FallbackSummary(num_pages, Decoded(reply).exception))
            ELSE Returned([decoded |-> Decoded(reply).value])

\* ocr_correction.py 38-73, applied to the text of the call.
quick_fix_ocr(text) == <<"quick_fix_ocr", text>>

\* ocr_correction.py 98-104 and 152-159; confidence in tenths.
RuleBased(text) ==
    [corrected_text |-> quick_fix_ocr(text),
     corrections |-> <<>>,
     confidence |-> 7,
     method |-> "rule-based"]

\* ocr_correction.py 76-159: a decoded value that is no object cannot take
\* the key "method" (148), which is one more failure the except clause takes.
smart_fix_ocr(settings, text, reply) ==
    CASE KeysTest(settings) = "AttributeError" -> Raised("AttributeError")
      [] KeysTest(settings) = "no keys" -> Returned(RuleBased(text))
      [] OTHER ->
            IF Decoded(reply).kind = "raised" \/ Decoded(reply).value = "scalar"
            THEN Returned(RuleBased(text))
            ELSE Returned([decoded |-> "object", method |-> "ai"])

Helpers == { "create_concise_summary", "smart_fix_ocr" }

OcrText == <<"t", "n", "e">>

NoCall == [helper |-> "", env |-> {}, num_pages |-> 0, n_tables |-> 0, reply |-> ""]

Pending == [kind |-> "pending"]

\* ------------------------------------------------------ upload handling
Endpoints ==
    { "/extract", "/extract/url", "/extract/summarize", "/extract/structured",
      "/extract/structure", "/extract/batch", "/extract/batch/zip" }

\* routes.py 349-382 and 402-435 loop over the files of the request.
IsBatch(e) == e \in {"/extract/batch", "/extract/batch/zip"}

\* routes.py 135-139: /extract leaves the deletion to a background task.
UsesBackgroundTask(e) == e = "/extract"

\* The handler of one request: where it stands, the number of its files,
\* the file it is at, the files it is done with, the deletions queued as
\* background tasks, and whether it has raised.
IdleHandler == [at |-> "idle", n |-> 0, k |-> 0, done |-> 0, tasks |-> {}, failed |-> FALSE]

\* Where the handler goes when opening or writing the upload file raises:
\* the batch endpoints do both inside the try (routes.py 353-356, 405-407),
\* the others before it (94-98, 161-164, 261-263, 308-310, 467-469).
AfterWriteFailure(e) == IF IsBatch(e) THEN "finally" ELSE "respond"

\* --------------------------------------------------------- parser inputs
\* The lines the inputs are made of: blank, plain, headings (one and two
\* spaces after the marker, a marker followed by white space only, level 6),
\* bullet and numbered list lines, and the fence.
ParserLines ==
    { <<>>,
      <<"a">>,
      <<"#", " ", "a">>,
      <<"#", " ", " ", "a">>,
      <<"#", " ", " ">>,
      <<"#", "#", "#", "#", "#", "#", " ", "a">>,
      <<"-", " ", "a">>,
      <<"1", ".", " ", "a">>,
      Fence }

LineSeqs(S, n) == UNION { [1..m -> S] : m \in 1..n }

Markdowns == { JoinNL(ls) : ls \in LineSeqs(ParserLines, MaxLines) }

\* ------------------------------------------------------------------ state
VARIABLES markdown, lines, i, st, result,
          text1, text2, context_lines, cs, comparison,
          ws, changes,
          extractor, heap, constructed, req,
          hcall, houtcome,
          endpoint, upload_dir, handler,
          pc

parserVars == <<markdown, lines, i, st, result>>

compareVars == <<text1, text2, context_lines, cs, comparison>>

wordVars == <<ws, changes>>

poolVars == <<extractor, heap, constructed, req>>

helperVars == <<hcall, houtcome>>

uploadVars == <<endpoint, upload_dir, handler>>

vars == <<parserVars, compareVars, wordVars, poolVars, helperVars, uploadVars, pc>>

\* No helper is being called.
HelperIdle ==
    /\ hcall = NoCall
    /\ houtcome = Pending

\* No upload request is being handled.
UploadIdle ==
    /\ endpoint = ""
    /\ upload_dir = {}
    /\ handler = IdleHandler

\* No word-level diff is running.
WordIdle ==
    /\ ws = IdleWords
    /\ changes = <<>>

\* No request is being served.
PoolIdle ==
    /\ extractor = Unset
    /\ heap = <<>>
    /\ constructed = 0
    /\ req = [r \in Requests |-> NewRequest]

\* No comparison is running.
CompareIdle ==
    /\ text1 = <<>>
    /\ text2 = <<>>
    /\ context_lines = 3
    /\ cs = IdleCompare
    /\ comparison = NoComparison

\* No parse is running.
ParseIdle ==
    /\ markdown = <<>>
    /\ lines = <<>>
    /\ i = 0
    /\ st = ParserStart
    /\ result = <<>>

ParseInit ==
    /\ markdown \in Markdowns
    /\ lines = <<>>
    /\ i = 0
    /\ st = ParserStart
    /\ pc = "call"
    /\ result = <<>>
    /\ CompareIdle
    /\ WordIdle
    /\ PoolIdle
    /\ HelperIdle
    /\ UploadIdle

\* routes.py 493-497
Begin ==
    /\ pc = "call"
    /\ lines' = SplitNL(markdown)
    /\ i' = 1
    /\ st' = ParserStart
    /\ pc' = "loop"
    /\ UNCHANGED <<markdown, result, compareVars, wordVars, poolVars, helperVars, uploadVars>>

AtLine(branch) ==
    /\ pc = "loop"
    /\ i <= Len(lines)
    /\ Branch(st, lines[i]) = branch

Advance(next) ==
    /\ st' = next
    /\ i' = i + 1
    /\ UNCHANGED <<markdown, lines, pc, result, compareVars, wordVars, poolVars, helperVars, uploadVars>>

FenceLine == AtLine("fence") /\ Advance(FenceStep(st, lines[i]))

CodeLine == AtLine("code") /\ Advance(CodeStep(st, lines[i]))

HeadingLine == AtLine("heading") /\ Advance(HeadingStep(st, lines[i]))

ListLine == AtLine("list") /\ Advance(ListStep(st, lines[i]))

ListBlankLine == AtLine("list_blank") /\ Advance(ListBlankStep(st, lines[i]))

RegularLine == AtLine("regular") /\ Advance(RegularStep(st, lines[i]))

\* routes.py 552-557
Return ==
    /\ pc = "loop"
    /\ i > Len(lines)
    /\ result' = FinalStep(st)
    /\ pc' = "done"
    /\ UNCHANGED <<markdown, lines, i, st, compareVars, wordVars, poolVars, helperVars, uploadVars>>

ParseNext ==
    \/ Begin
    \/ FenceLine
    \/ CodeLine
    \/ HeadingLine
    \/ ListLine
    \/ ListBlankLine
    \/ RegularLine
    \/ Return

Spec == ParseInit /\ [][ParseNext]_vars

FairSpec == Spec /\ WF_vars(ParseNext)

\* ------------------------------------------- compare_documents, step by step
CompareInit ==
    /\ text1 \in Texts
    /\ text2 \in Texts
    /\ context_lines \in ContextChoices
    /\ cs = IdleCompare
    /\ comparison = NoComparison
    /\ pc = "compare"
    /\ ParseIdle
    /\ WordIdle
    /\ PoolIdle
    /\ HelperIdle
    /\ UploadIdle

\* document_compare.py 67-87
CompareBegin ==
    /\ pc = "compare"
    /\ cs' = [lines1 |-> Splitlines(text1),
              lines2 |-> Splitlines(text2),
              similarity |-> Similarity(text1, text2),
              differ |-> Differ(Splitlines(text1), Splitlines(text2), context_lines),
              pos |-> 1,
              loop |-> LoopStart]
    /\ pc' = "diff_loop"
    /\ UNCHANGED <<text1, text2, context_lines, comparison, parserVars, wordVars, poolVars, helperVars, uploadVars>>

AtDiffLine(branch) ==
    /\ pc = "diff_loop"
    /\ cs.pos <= Len(cs.differ)
    /\ DiffBranch(cs.differ[cs.pos]) = branch

NextDiffLine(next) ==
    /\ cs' = [cs EXCEPT !.loop = next, !.pos = @ + 1]
    /\ UNCHANGED <<text1, text2, context_lines, comparison, parserVars, wordVars, poolVars, helperVars, uploadVars, pc>>

HunkHeader == AtDiffLine("hunk") /\ NextDiffLine(HunkStep(cs.loop, cs.differ[cs.pos]))

FileHeader == AtDiffLine("file") /\ NextDiffLine(FileHeaderStep(cs.loop, cs.differ[cs.pos]))

RemovedLine == AtDiffLine("removed") /\ NextDiffLine(RemovedStep(cs.loop, cs.differ[cs.pos]))

AddedLine == AtDiffLine("added") /\ NextDiffLine(AddedStep(cs.loop, cs.differ[cs.pos]))

ContextLine == AtDiffLine("context") /\ NextDiffLine(ContextStep(cs.loop, cs.differ[cs.pos]))

\* document_compare.py 119-142
CompareReturn ==
    /\ pc = "diff_loop"
    /\ cs.pos > Len(cs.differ)
    /\ comparison' = ComparisonResult(cs.lines1, cs.lines2, cs.similarity, cs.loop)
    /\ pc' = "compared"
    /\ UNCHANGED <<text1, text2, context_lines, cs, parserVars, wordVars, poolVars, helperVars, uploadVars>>

CompareNext ==
    \/ CompareBegin
    \/ HunkHeader
    \/ FileHeader
    \/ RemovedLine
    \/ AddedLine
    \/ ContextLine
    \/ CompareReturn

CompareSpec == CompareInit /\ [][CompareNext]_vars

\* ----------------------------------------- get_word_level_diff, step by step
WordInit ==
    /\ \E layout \in Layouts :
          /\ text1 \in WordTexts(layout)
          /\ text2 \in WordTexts(layout)
    /\ context_lines = 3
    /\ cs = IdleCompare
    /\ comparison = NoComparison
    /\ WordIdle
    /\ pc = "words"
    /\ ParseIdle
    /\ PoolIdle
    /\ HelperIdle
    /\ UploadIdle

\* document_compare.py 170-175
WordBegin ==
    /\ pc = "words"
    /\ ws' = [words1 |-> SplitWords(text1),
              words2 |-> SplitWords(text2),
              opcodes |-> get_opcodes(SplitWords(text1), SplitWords(text2)),
              pos |-> 1,
              changes |-> <<>>]
    /\ pc' = "opcode_loop"
    /\ UNCHANGED <<changes, parserVars, compareVars, poolVars, helperVars, uploadVars>>

AtOpcode(tag) ==
    /\ pc = "opcode_loop"
    /\ ws.pos <= Len(ws.opcodes)
    /\ ws.opcodes[ws.pos].tag = tag

NextOpcode(next) ==
    /\ ws' = [ws EXCEPT !.changes = next, !.pos = @ + 1]
    /\ UNCHANGED <<changes, parserVars, compareVars, poolVars, helperVars, uploadVars, pc>>

EqualOp == AtOpcode("equal") /\ NextOpcode(EqualStep(ws.changes, ws.words1, ws.words2, ws.opcodes[ws.pos]))

ReplaceOp == AtOpcode("replace") /\ NextOpcode(ReplaceStep(ws.changes, ws.words1, ws.words2, ws.opcodes[ws.pos]))

DeleteOp == AtOpcode("delete") /\ NextOpcode(DeleteStep(ws.changes, ws.words1, ws.words2, ws.opcodes[ws.pos]))

InsertOp == AtOpcode("insert") /\ NextOpcode(InsertStep(ws.changes, ws.words1, ws.words2, ws.opcodes[ws.pos]))

\* document_compare.py 199
WordReturn ==
    /\ pc = "opcode_loop"
    /\ ws.pos > Len(ws.opcodes)
    /\ changes' = ws.changes
    /\ pc' = "worded"
    /\ UNCHANGED <<ws, parserVars, compareVars, poolVars, helperVars, uploadVars>>

WordNext ==
    \/ WordBegin
    \/ EqualOp
    \/ ReplaceOp
    \/ DeleteOp
    \/ InsertOp
    \/ WordReturn

WordSpec == WordInit /\ [][WordNext]_vars

\* -------------------------------------- extract requests and the thread pool
\* The handlers run on the event loop, one at a time between their awaits;
\* _convert_sync runs on the threads of the default executor, which has at
\* least five of them, so every request of the model gets a thread at once.
PoolInit ==
    /\ PoolIdle
    /\ HelperIdle
    /\ UploadIdle
    /\ pc = "serve"
    /\ ParseIdle
    /\ CompareIdle
    /\ WordIdle

At(r, where) == pc = "serve" /\ req[r].at = where

Goto(r, where) == [req EXCEPT ![r].at = where]

\* extractor.py 222-227, called by the handler (routes.py 105): no await
\* between the test and the assignment.
GetExtractor(r) ==
    /\ At(r, "handler")
    /\ IF extractor = Unset
       THEN /\ heap' = Append(heap, DocumentExtractor)
            /\ extractor' = Len(heap) + 1
       ELSE UNCHANGED <<heap, extractor>>
    /\ req' = [req EXCEPT ![r].at = "submit", ![r].extractor = extractor']
    /\ UNCHANGED <<constructed, parserVars, compareVars, wordVars, helperVars, uploadVars, pc>>

\* extractor.py 153-159: the conversion is handed to a thread of the pool.
Submit(r) ==
    /\ At(r, "submit")
    /\ req' = Goto(r, "test")
    /\ UNCHANGED <<extractor, heap, constructed, parserVars, compareVars, wordVars, helperVars, uploadVars, pc>>

\* extractor.py 100: if self._converter is None
TestConverter(r) ==
    /\ At(r, "test")
    /\ req' = Goto(r, IF heap[req[r].extractor].converter = Unset THEN "construct" ELSE "fetch")
    /\ UNCHANGED <<extractor, heap, constructed, parserVars, compareVars, wordVars, helperVars, uploadVars, pc>>

\* extractor.py 101-116, the right-hand side: DocumentConverter(...) is
\* instantiated.
Construct(r) ==
    /\ At(r, "construct")
    /\ constructed' = constructed + 1
    /\ req' = [req EXCEPT ![r].at = "store", ![r].built = constructed + 1]
    /\ UNCHANGED <<extractor, heap, parserVars, compareVars, wordVars, helperVars, uploadVars, pc>>

\* extractor.py 105: self._converter = ...
Store(r) ==
    /\ At(r, "store")
    /\ heap' = [heap EXCEPT ![req[r].extractor].converter = req[r].built]
    /\ req' = Goto(r, "fetch")
    /\ UNCHANGED <<extractor, constructed, parserVars, compareVars, wordVars, helperVars, uploadVars, pc>>

\* extractor.py 117 and 171: return self._converter, and the conversion with it.
Fetch(r) ==
    /\ At(r, "fetch")
    /\ req' = [req EXCEPT ![r].at = "await", ![r].used = heap[req[r].extractor].converter]
    /\ UNCHANGED <<extractor, heap, constructed, parserVars, compareVars, wordVars, helperVars, uploadVars, pc>>

\* extractor.py 160: the awaited result comes back to the handler.
Resolve(r) ==
    /\ At(r, "await")
    /\ req' = Goto(r, "resolved")
    /\ UNCHANGED <<extractor, heap, constructed, parserVars, compareVars, wordVars, helperVars, uploadVars, pc>>

PoolNext ==
    \/ \E r \in Requests : GetExtractor(r)
    \/ \E r \in Requests : Submit(r)
    \/ \E r \in Requests : TestConverter(r)
    \/ \E r \in Requests : Construct(r)
    \/ \E r \in Requests : Store(r)
    \/ \E r \in Requests : Fetch(r)
    \/ \E r \in Requests : Resolve(r)

PoolSpec == PoolInit /\ [][PoolNext]_vars

\* ------------------------------------------------- the LLM helpers, called
HelperInit ==
    /\ hcall \in [helper : Helpers,
                  env : SUBSET KeyVariables,
                  num_pages : 0..MaxPages,
                  n_tables : 0..MaxTables,
                  reply : Replies]
    /\ houtcome = Pending
    /\ pc = "helper"
    /\ ParseIdle
    /\ CompareIdle
    /\ WordIdle
    /\ PoolIdle
    /\ UploadIdle

\* summarizer.py 19-91 and ocr_correction.py 76-159, with the module's
\* settings object (summarizer.py 16, ocr_correction.py 17).
CallHelper ==
    /\ pc = "helper"
    /\ houtcome' = IF hcall.helper = "create_concise_summary"
                   THEN create_concise_summary(Settings(hcall.env), hcall.num_pages,
                                               hcall.n_tables, hcall.reply)
                   ELSE smart_fix_ocr(Settings(hcall.env), OcrText, hcall.reply)
    /\ pc' = "helped"
    /\ UNCHANGED <<hcall, parserVars, compareVars, wordVars, poolVars, uploadVars>>

HelperNext == CallHelper

HelperSpec == HelperInit /\ [][HelperNext]_vars

\* ------------------------------------------- one upload request, step by step
\* The upload files of the request are numbered 1..n; upload_dir holds the
\* numbers of those that exist.
UploadInit ==
    /\ endpoint \in Endpoints
    /\ upload_dir = {}
    /\ \E n \in 1..MaxFiles :
          /\ IsBatch(endpoint) \/ n = 1
          /\ handler = [IdleHandler EXCEPT !.at = "open", !.n = n, !.k = 1]
    /\ pc = "request"
    /\ ParseIdle
    /\ CompareIdle
    /\ WordIdle
    /\ PoolIdle
    /\ HelperIdle

HandlerAt(where) == pc = "request" /\ handler.at = where

HandlerStep(next) ==
    /\ handler' = next
    /\ UNCHANGED <<endpoint, parserVars, compareVars, wordVars, poolVars, helperVars, pc>>

\* aiofiles.open(upload_path, 'wb') creates the file (routes.py 96, 163,
\* 261, 308, 354, 405, 467).
OpenOk ==
    /\ HandlerAt("open")
    /\ upload_dir' = upload_dir \cup {handler.k}
    /\ HandlerStep([handler EXCEPT !.at = "write"])

\* The open raises: there is no file.
OpenFails ==
    /\ HandlerAt("open")
    /\ upload_dir' = upload_dir
    /\ HandlerStep([handler EXCEPT !.at = AfterWriteFailure(endpoint), !.failed = TRUE])

\* file.read() and f.write(content) (routes.py 97-98 and the like).
WriteOk ==
    /\ HandlerAt("write")
    /\ upload_dir' = upload_dir
    /\ HandlerStep([handler EXCEPT !.at = "extract"])

\* The read or the write raises; the file was created by the open.
WriteFails ==
    /\ HandlerAt("write")
    /\ upload_dir' = upload_dir
    /\ HandlerStep([handler EXCEPT !.at = AfterWriteFailure(endpoint), !.failed = TRUE])

\* The body of the try returns (routes.py 103-130 and the like).
ExtractOk ==
    /\ HandlerAt("extract")
    /\ upload_dir' = upload_dir
    /\ HandlerStep([handler EXCEPT !.at = "finally"])

\* The body of the try raises.  The batch endpoints catch the exception
\* (routes.py 368-373, 431-432); the others let it, or an HTTPException made
\* of it (132-133), leave the handler after the finally clause.
ExtractRaises ==
    /\ HandlerAt("extract")
    /\ upload_dir' = upload_dir
    /\ HandlerStep([handler EXCEPT !.at = "finally", !.failed = ~IsBatch(endpoint)])

\* Where the handler stands after the finally clause of file k.
AfterFinally(h) ==
    IF IsBatch(endpoint) /\ h.k < h.n
    THEN [h EXCEPT !.at = "open", !.k = @ + 1, !.done = @ + 1, !.failed = FALSE]
    ELSE [h EXCEPT !.at = "respond", !.done = @ + 1,
                   !.failed = IF IsBatch(endpoint) THEN FALSE ELSE @]

\* finally: upload_path.unlink(missing_ok=True) (routes.py 198-200, 294-295,
\* 329-330, 374-375, 433-434, 487-488).
FinallyUnlink ==
    /\ HandlerAt("finally")
    /\ ~UsesBackgroundTask(endpoint)
    /\ upload_dir' = upload_dir \ {handler.k}
    /\ HandlerStep(AfterFinally(handler))

\* finally: background_tasks.add_task(cleanup_file, upload_path) (routes.py
\* 135-139).
FinallyAddTask ==
    /\ HandlerAt("finally")
    /\ UsesBackgroundTask(endpoint)
    /\ upload_dir' = upload_dir
    /\ HandlerStep(AfterFinally([handler EXCEPT !.tasks = @ \cup {handler.k}]))

\* cleanup_file (routes.py 218-223), run by the framework after the response.
RunTask ==
    /\ HandlerAt("respond")
    /\ \E path \in handler.tasks :
          /\ upload_dir' = upload_dir \ {path}
          /\ HandlerStep([handler EXCEPT !.tasks = @ \ {path}])

\* The handler raised: its queued tasks belong to a response that is never
\* built.  Whether the framework still runs them is not decided by this
\* repository, so both outcomes are possible.
DropTasks ==
    /\ HandlerAt("respond")
    /\ handler.failed
    /\ handler.tasks # {}
    /\ upload_dir' = upload_dir
    /\ HandlerStep([handler EXCEPT !.tasks = {}])

\* The request is over.
Close ==
    /\ HandlerAt("respond")
    /\ handler.tasks = {}
    /\ upload_dir' = upload_dir
    /\ HandlerStep([handler EXCEPT !.at = "closed"])

UploadNext ==
    \/ OpenOk
    \/ OpenFails
    \/ WriteOk
    \/ WriteFails
    \/ ExtractOk
    \/ ExtractRaises
    \/ FinallyUnlink
    \/ FinallyAddTask
    \/ RunTask
    \/ DropTasks
    \/ Close

UploadSpec == UploadInit /\ [][UploadNext]_vars

\* Every request comes to its end.
FairUploadSpec == UploadSpec /\ WF_vars(UploadNext)

\* ===================================================== parser properties
HeadingKinds ==
    <<"heading_1", "heading_2", "heading_3", "heading_4", "heading_5", "heading_6">>

Kinds == {HeadingKinds[k] : k \in 1..6} \cup {"paragraph", "list", "code_block"}

IsHeadingKind(t) == \E k \in 1..6 : t = HeadingKinds[k]

LevelOf(t) == CHOOSE k \in 1..6 : t = HeadingKinds[k]

RECURSIVE Hashes(_)
Hashes(k) == IF k = 0 THEN <<>> ELSE <<"#">> \o Hashes(k - 1)

NotBlank(l) == ~IsBlank(l)

NoFenceLines == \A k \in 1..Len(lines) : ~IsFence(lines[k])

FenceCount(ls) == Cardinality({k \in 1..Len(ls) : IsFence(ls[k])})

\* The number of steps the call can still take.
Remaining ==
    IF pc = "call" THEN Len(markdown) + 3
    ELSE IF pc = "loop" THEN Len(lines) + 2 - i
    ELSE 0

\* C1: the parser is total: a call is never stuck before it returns, every step
\* uses up the natural number Remaining (so the call returns after finitely many
\* steps), the list it returns is finite (never longer than the number of input
\* lines), and the empty string gives the empty list.
C1_Total ==
    /\ [](pc # "done" => ENABLED ParseNext)
    /\ [](Remaining >= 0)
    /\ [][Remaining' < Remaining]_vars
    /\ [](pc = "done" => (Len(result) <= Len(lines) /\ (markdown = <<>> => result = <<>>)))

\* Every call returns (checked under weak fairness of the steps).
EventuallyReturns == <>(pc = "done")

C1_Witness == pc = "done" /\ markdown = <<>> /\ result = <<>>

\* The source lines an element holds: a heading holds its text, any other
\* element the non-blank lines of its content.
ElemLines(e) ==
    IF IsHeadingKind(e.type)
    THEN << [heading |-> TRUE, level |-> LevelOf(e.type), text |-> e.content] >>
    ELSE LET ls == SelectSeq(SplitNL(e.content), NotBlank)
         IN  [k \in 1..Len(ls) |-> [heading |-> FALSE, level |-> 0, text |-> ls[k]]]

Flatten(es) == Concat([k \in 1..Len(es) |-> ElemLines(es[k])])

IsContentLine(l) == ~IsBlank(l) /\ ~IsFence(l)

\* A heading entry holds a source line: the line is the marker of that level,
\* white space, and the entry's text.
HoldsHeading(entry, line) ==
    /\ RunLen(line, 1, {"#"}) = entry.level
    /\ Len(entry.text) >= 1
    /\ Len(line) > entry.level + Len(entry.text)
    /\ SubSeq(line, Len(line) - Len(entry.text) + 1, Len(line)) = entry.text
    /\ \A k \in (entry.level + 1)..(Len(line) - Len(entry.text)) : IsSpace(line[k])

Holds(entry, line) ==
    IF entry.heading THEN HoldsHeading(entry, line) ELSE entry.text = line

\* C2: lossless partition: the lines held by the returned elements, in order,
\* are exactly the non-blank, non-fence lines of the input, in order, each held
\* once (a heading line as its text without the marker).
C2_LosslessPartition ==
    pc = "done" =>
        LET flat == Flatten(result)
            src == SelectSeq(lines, IsContentLine)
        IN  /\ Len(flat) = Len(src)
            /\ \A k \in 1..Len(flat) : Holds(flat[k], src[k])

C2_Witness ==
    /\ pc = "done"
    /\ Len(result) >= 3
    /\ \E k \in 1..Len(result) : IsHeadingKind(result[k].type)
    /\ \E k \in 1..Len(result) : result[k].type = "paragraph"
    /\ \E k \in 1..Len(lines) : IsFence(lines[k])

\* The lines after the last fence line of ls.
AfterLastFence(ls) ==
    LET f == CHOOSE k \in 1..Len(ls) :
                 IsFence(ls[k]) /\ \A m \in (k + 1)..Len(ls) : ~IsFence(ls[m])
    IN  SubSeq(ls, f + 1, Len(ls))

\* C3: at end of input a code block that was opened and never closed (and holds
\* some non-blank line) is returned as the last element, of kind code_block,
\* with the lines after the opening fence as its content.
C3_UnterminatedIsCodeBlock ==
    (/\ pc = "done"
     /\ FenceCount(lines) % 2 = 1
     /\ \E k \in 1..Len(AfterLastFence(lines)) : ~IsBlank(AfterLastFence(lines)[k])) =>
        /\ result # <<>>
        /\ Last(result) = [type |-> "code_block", content |-> JoinNL(AfterLastFence(lines))]

\* A line made of k '#' (1 <= k <= 6), a space and then at least one character.
IsHashSpaceText(line) ==
    LET k == RunLen(line, 1, {"#"})
    IN  k >= 1 /\ k <= 6 /\ Len(line) >= k + 2 /\ line[k + 1] = " "

AtHashSpaceText ==
    /\ pc = "loop"
    /\ i <= Len(lines)
    /\ ~st.in_code_block
    /\ IsHashSpaceText(lines[i])

\* The step appended the element e, after at most one flushed non-heading element.
EmitsOnly(e) ==
    LET old == st.elements
        new == st'.elements
    IN  /\ Len(new) \in {Len(old) + 1, Len(old) + 2}
        /\ SubSeq(new, 1, Len(old)) = old
        /\ Last(new) = e
        /\ Len(new) = Len(old) + 2 => ~IsHeadingKind(new[Len(old) + 1].type)

\* C4 as stated: the heading's content is the text after the marker and one
\* separating space.
C4_ContentAfterOneSpace ==
    [][AtHashSpaceText =>
          LET k == RunLen(lines[i], 1, {"#"})
          IN  EmitsOnly([type |-> HeadingKinds[k],
                         content |-> SubSeq(lines[i], k + 2, Len(lines[i]))])]_vars

\* The text of a heading line: what follows the marker and all the white space
\* after it, or the line's last character when only white space follows.
HeadingTextOf(line) ==
    LET k == RunLen(line, 1, {"#"})
        rest == SubSeq(line, k + 1, Len(line))
        firstText == { m \in 1..Len(rest) : ~IsSpace(rest[m]) }
    IN  IF firstText = {} THEN <<Last(line)>>
        ELSE SubSeq(rest, CHOOSE m \in firstText : \A n \in firstText : m <= n, Len(rest))

\* C4 (amended): outside a code block a line of k '#' (1 <= k <= 6), a space and
\* text emits exactly one element of kind heading_k whose content is the text
\* after the marker and all the white space that follows it (the last character
\* of the line when nothing but white space follows the marker).
C4_ContentAfterWhitespace ==
    [][AtHashSpaceText =>
          LET k == RunLen(lines[i], 1, {"#"})
          IN  EmitsOnly([type |-> HeadingKinds[k], content |-> HeadingTextOf(lines[i])])]_vars

C4_Witness ==
    /\ pc = "loop"
    /\ i > 1
    /\ lines[i - 1] = <<"#", " ", " ", "a">>
    /\ st.elements # <<>>
    /\ Last(st.elements) = [type |-> "heading_1", content |-> <<"a">>]

\* The contents of the code blocks closed within ls[1..n], in order.
RECURSIVE ClosedBlocks(_, _, _, _)
ClosedBlocks(ls, k, open, n) ==
    IF k > n THEN <<>>
    ELSE IF ~IsFence(ls[k]) THEN ClosedBlocks(ls, k + 1, open, n)
    ELSE IF open = 0 THEN ClosedBlocks(ls, k + 1, k, n)
    ELSE <<JoinNL(SubSeq(ls, open + 1, k - 1))>> \o ClosedBlocks(ls, k + 1, 0, n)

CodeBlocksOf(es) ==
    LET cb == SelectSeq(es, LAMBDA e : e.type = "code_block")
    IN  [k \in 1..Len(cb) |-> cb[k].content]

InsideFences ==
    /\ pc = "loop"
    /\ i <= Len(lines)
    /\ ~IsFence(lines[i])
    /\ FenceCount(SubSeq(lines, 1, i - 1)) % 2 = 1

\* C5: each opening fence and the fence that closes it give exactly one
\* code_block whose content is the lines strictly between them joined by line
\* feeds, blank lines included; a line between the fences emits nothing, keeps
\* the list state and is appended to the buffer as it is.
C5_FencedBlock ==
    /\ [](pc = "done" => CodeBlocksOf(result) = ClosedBlocks(lines, 1, 0, Len(lines)))
    /\ [][InsideFences =>
            /\ st'.elements = st.elements
            /\ st'.in_list = st.in_list
            /\ st'.in_code_block
            /\ st'.current_para = Append(st.current_para, lines[i])]_vars

C5_Witness ==
    /\ pc = "done"
    /\ \E k \in 1..Len(result) :
           /\ result[k].type = "code_block"
           /\ \E m \in 1..Len(result[k].content) : result[k].content[m] = NL

RenderElem(e) ==
    IF IsHeadingKind(e.type) THEN Hashes(LevelOf(e.type)) \o <<" ">> \o e.content
    ELSE e.content

\* The elements written out in order with a blank line between them.
RECURSIVE Render(_)
Render(es) ==
    IF Len(es) = 0 THEN <<>>
    ELSE IF Len(es) = 1 THEN RenderElem(es[1])
    ELSE RenderElem(es[1]) \o <<NL, NL>> \o Render(Tail(es))

KindsOf(es) == [k \in 1..Len(es) |-> es[k].type]

\* C7: for an input without fence lines, parsing the rendered elements again
\* gives the same sequence of kinds.
C7_KindsIdempotent ==
    (pc = "done" /\ NoFenceLines) =>
        KindsOf(parse_document_structure(Render(result))) = KindsOf(result)

\* ==================================================== compare properties
AddedRecords(ds) == SelectSeq(ds, LAMBDA d : d.type = "added")

RemovedRecords(ds) == SelectSeq(ds, LAMBDA d : d.type = "removed")

\* C8: comparing a text with itself reports 100.0 percent, no added and no
\* removed lines, and no records.
C8_SelfCompare ==
    (pc = "compared" /\ text1 = text2) =>
        /\ comparison.similarity_percent = 10000
        /\ comparison.added_lines = 0
        /\ comparison.removed_lines = 0
        /\ comparison.diffs = <<>>

C8_Witness ==
    /\ pc = "compared"
    /\ text1 = text2
    /\ comparison.total_lines_doc1 >= 2
    /\ comparison.similarity_percent = 10000
    /\ comparison.diffs = <<>>

\* C9: when the second document is the first with one more last line c, there
\* is exactly one added record, its content is c, added_lines is 1 and
\* removed_lines is 0.
C9_AppendedLine ==
    (pc = "compared" /\ cs.lines2 # <<>> /\ cs.lines1 = SubSeq(cs.lines2, 1, Len(cs.lines2) - 1)) =>
        /\ Len(AddedRecords(comparison.diffs)) = 1
        /\ AddedRecords(comparison.diffs)[1].content = Last(cs.lines2)
        /\ comparison.added_lines = 1
        /\ comparison.removed_lines = 0

\* C10: every added record carries the 1-based number, in the second
\* document, of the line that is its content.
C10_AddedLineNumbers ==
    pc = "compared" =>
        \A k \in 1..Len(comparison.diffs) :
            LET d == comparison.diffs[k]
            IN  d.type = "added" =>
                    /\ 1 <= d.line_number
                    /\ d.line_number <= comparison.total_lines_doc2
                    /\ cs.lines2[d.line_number] = d.content

\* C11 as stated: every removed record carries the 1-based number, in the first
\* document, of the line that is its content.
C11_RemovedSourceNumbers ==
    pc = "compared" =>
        \A k \in 1..Len(comparison.diffs) :
            LET d == comparison.diffs[k]
            IN  d.type = "removed" =>
                    /\ 1 <= d.line_number
                    /\ d.line_number <= comparison.total_lines_doc1
                    /\ cs.lines1[d.line_number] = d.content

\* C11 (amended): the content of every removed record is a line of the first
\* document, and its line_number is a value of the destination counter, not a
\* source line number: it lies between 0 and total_lines_doc2 + 1.
C11_RemovedDestinationCounter ==
    pc = "compared" =>
        \A k \in 1..Len(comparison.diffs) :
            LET d == comparison.diffs[k]
            IN  d.type = "removed" =>
                    /\ \E m \in 1..Len(cs.lines1) : cs.lines1[m] = d.content
                    /\ 0 <= d.line_number
                    /\ d.line_number <= comparison.total_lines_doc2 + 1

\* A removed record whose number is no line of the first document holding it.
C11_Witness ==
    /\ pc = "compared"
    /\ \E k \in 1..Len(comparison.diffs) :
           LET d == comparison.diffs[k]
           IN  /\ d.type = "removed"
               /\ d.line_number >= 1
               /\ d.line_number <= comparison.total_lines_doc1
               /\ cs.lines1[d.line_number] # d.content

Bands ==
    { "Documents are nearly identical.",
      "Documents are similar with minor differences.",
      "Documents have moderate differences.",
      "Documents are substantially different." }

\* The clause of the summary that states the two counts.
CountsClause(nAdded, nRemoved) ==
    " " \o ToString(nAdded) \o " lines added, " \o ToString(nRemoved) \o " lines removed."

\* C12: added_lines is the number of added records, removed_lines the number
\* of removed records, and the summary states exactly these two numbers.
C12_CountsMatchRecords ==
    pc = "compared" =>
        LET nAdded == Len(AddedRecords(comparison.diffs))
            nRemoved == Len(RemovedRecords(comparison.diffs))
        IN  /\ comparison.added_lines = nAdded
            /\ comparison.removed_lines = nRemoved
            /\ \E band \in Bands : comparison.summary = band \o CountsClause(nAdded, nRemoved)

C12_Witness ==
    /\ pc = "compared"
    /\ Len(AddedRecords(comparison.diffs)) = 2
    /\ Len(RemovedRecords(comparison.diffs)) = 1
    /\ comparison.added_lines = 2
    /\ comparison.removed_lines = 1

\* The band sentence a result's summary starts with.
BandOf(res) ==
    CHOOSE band \in Bands : res.summary = band \o CountsClause(res.added_lines, res.removed_lines)

\* The comparison of the same two documents in the other argument order.
Swapped == compare_documents(text2, text1, context_lines)

\* C13: the similarity of (text1, text2) equals the similarity of
\* (text2, text1), and both summaries start with the same band sentence.
C13_SimilaritySymmetric ==
    pc = "compared" =>
        /\ comparison.similarity_percent = Swapped.similarity_percent
        /\ BandOf(comparison) = BandOf(Swapped)

\* C13, the band alone is the same in both argument orders.
C13_BandSymmetric ==
    pc = "compared" => BandOf(comparison) = BandOf(Swapped)

ContentsOf(ds) == [k \in 1..Len(ds) |-> ds[k].content]

\* C14: the added count of (text1, text2) is the removed count of
\* (text2, text1), and the added contents of the first are the removed
\* contents of the second.
C14_SwapTurnsAddedIntoRemoved ==
    pc = "compared" =>
        /\ comparison.added_lines = Swapped.removed_lines
        /\ ContentsOf(AddedRecords(comparison.diffs)) = ContentsOf(RemovedRecords(Swapped.diffs))

\* The similarity percentage 100 * r[1] / r[2] lies in the interval (lo, hi].
PercentIn(r, lo, hi) == lo * r[2] < 100 * r[1] /\ 100 * r[1] <= hi * r[2]

\* C15: the first sentence of the summary is the band of the similarity
\* percentage, with strict lower thresholds 95, 80 and 50, and the clause
\* with the two line counts always follows it.
C15_BandByStrictThresholds ==
    pc = "compared" =>
        LET r == cs.similarity
            rest == CountsClause(comparison.added_lines, comparison.removed_lines)
            band == IF PercentIn(r, 95, 100) THEN "Documents are nearly identical."
                    ELSE IF PercentIn(r, 80, 95) THEN "Documents are similar with minor differences."
                    ELSE IF PercentIn(r, 50, 80) THEN "Documents have moderate differences."
                    ELSE "Documents are substantially different."
        IN  /\ 100 * r[1] <= 100 * r[2]
            /\ comparison.summary = band \o rest

\* A similarity of exactly 50 is reported as substantially different.
C15_Witness ==
    /\ pc = "compared"
    /\ 100 * cs.similarity[1] = 50 * cs.similarity[2]
    /\ comparison.similarity_percent = 5000
    /\ BandOf(comparison) = "Documents are substantially different."

\* C16: the diffs hold only added and removed records, no record has an
\* old_content, and changed_lines is 0.
C16_NoChangedRecords ==
    pc = "compared" =>
        /\ \A k \in 1..Len(comparison.diffs) :
              /\ comparison.diffs[k].type \in {"added", "removed"}
              /\ comparison.diffs[k].old_content = None
        /\ comparison.changed_lines = 0

\* A line replaced by another next to a common line: the removed and the
\* added record stand side by side.
C16_Witness ==
    /\ pc = "compared"
    /\ \E k \in 1..Len(cs.differ) : DiffBranch(cs.differ[k]) = "context"
    /\ \E k \in 1..(Len(comparison.diffs) - 1) :
          /\ comparison.diffs[k].type = "removed"
          /\ comparison.diffs[k + 1].type = "added"

\* ================================================= word-level properties
NonEqual(ops) == SelectSeq(ops, LAMBDA op : op.tag # "equal")

\* The record type an opcode tag is reported as.
TypeOfTag(tag) ==
    CASE tag = "replace" -> "changed"
      [] tag = "delete" -> "removed"
      [] tag = "insert" -> "added"

\* One record per opcode that is not equal, in the order of the opcodes.
OneRecordPerOpcode ==
    LET ops == NonEqual(ws.opcodes)
    IN  /\ Len(changes) = Len(ops)
        /\ \A k \in 1..Len(ops) :
              /\ changes[k].type = TypeOfTag(ops[k].tag)
              /\ changes[k].position = (IF ops[k].tag = "insert" THEN ops[k].j1 ELSE ops[k].i1)

\* words2 is words1 with the word at the one-based index k replaced by a
\* word that words1 does not hold.
ReplacedAt(words1, words2, k) ==
    /\ Len(words1) = Len(words2)
    /\ k \in 1..Len(words1)
    /\ \A m \in 1..Len(words1) : m # k => words1[m] = words2[m]
    /\ \A m \in 1..Len(words1) : words1[m] # words2[k]

OneChanged(words1, words2, k) ==
    changes = << [type |-> "changed", old |-> words1[k], new |-> words2[k], position |-> k - 1] >>

Distinct(words) ==
    \A m, n \in 1..Len(words) : m # n => words[m] # words[n]

\* C17 as stated: one record per non-equal opcode, in order; and a single
\* word replaced by a word new to text1 gives exactly one changed record
\* with the old word, the new word and the zero-based index.
C17_SingleReplacement ==
    pc = "worded" =>
        /\ OneRecordPerOpcode
        /\ \A k \in 1..Len(ws.words1) :
              ReplacedAt(ws.words1, ws.words2, k) => OneChanged(ws.words1, ws.words2, k)

\* C17 (amended): one record per non-equal opcode, in order; and when the
\* words of text1 are pairwise distinct, a single word replaced by a word
\* new to text1 gives exactly one changed record with the old word, the new
\* word and the zero-based index.
C17_SingleReplacementOfDistinctWords ==
    pc = "worded" =>
        /\ OneRecordPerOpcode
        /\ \A k \in 1..Len(ws.words1) :
              (Distinct(ws.words1) /\ ReplacedAt(ws.words1, ws.words2, k))
                  => OneChanged(ws.words1, ws.words2, k)

\* The middle word of three distinct words replaced.
C17_Witness ==
    /\ pc = "worded"
    /\ Len(ws.words1) = 3
    /\ Distinct(ws.words1)
    /\ ReplacedAt(ws.words1, ws.words2, 2)
    /\ OneChanged(ws.words1, ws.words2, 2)
    /\ Len(ws.opcodes) = 3

\* ================================================= empty inputs
AllOfType(ds, type) == \A k \in 1..Len(ds) : ds[k].type = type

\* C18: compare_documents on empty input.  Both texts empty: no diffs and a
\* similarity of 100.0.  One text empty: the lines of the other, each once
\* and in order, as added (text1 empty) or removed (text2 empty) records,
\* and nothing else.
C18_EmptyInputs ==
    pc = "compared" =>
        /\ (text1 = <<>> /\ text2 = <<>>) =>
              (comparison.diffs = <<>> /\ comparison.similarity_percent = 10000)
        /\ (text1 = <<>> /\ text2 # <<>>) =>
              /\ AllOfType(comparison.diffs, "added")
              /\ ContentsOf(comparison.diffs) = cs.lines2
        /\ (text1 # <<>> /\ text2 = <<>>) =>
              /\ AllOfType(comparison.diffs, "removed")
              /\ ContentsOf(comparison.diffs) = cs.lines1

\* C18, the word-level half: get_word_level_diff on empty input.  Both texts
\* empty: no records.  One text empty: the words of the other in one added
\* (or removed) record, and nothing else.
C18_EmptyWordInputs ==
    pc = "worded" =>
        /\ (text1 = <<>> /\ text2 = <<>>) => changes = <<>>
        /\ (text1 = <<>> /\ ws.words2 # <<>>) =>
              changes = << [type |-> "added", content |-> JoinSpace(ws.words2), position |-> 0] >>
        /\ (text2 = <<>> /\ ws.words1 # <<>>) =>
              changes = << [type |-> "removed", content |-> JoinSpace(ws.words1), position |-> 0] >>
        /\ (ws.words1 = <<>> /\ ws.words2 = <<>>) => changes = <<>>

\* C18, no call raises: every opcode the word loop meets has one of the four
\* tags the loop handles, and every hunk header the line loop meets either
\* parses or is passed over.
C18_EveryStepHandled ==
    /\ (pc = "opcode_loop" /\ ws.pos <= Len(ws.opcodes)) =>
          ws.opcodes[ws.pos].tag \in {"equal", "replace", "delete", "insert"}
    /\ (pc = "diff_loop" /\ cs.pos <= Len(cs.differ)) =>
          DiffBranch(cs.differ[cs.pos]) \in {"hunk", "file", "removed", "added", "context"}

\* ================================================= extractor properties
\* C19: whatever the requests do, get_extractor has handed the same
\* DocumentExtractor to every request and DocumentConverter has been
\* instantiated at most once.
C19_ConverterBuiltOnce ==
    pc = "serve" =>
        /\ Len(heap) <= 1
        /\ \A r \in Requests : req[r].at # "handler" => req[r].extractor = extractor
        /\ constructed <= 1

\* C19, the first half alone: one DocumentExtractor, the same for every request.
C19_OneExtractor ==
    pc = "serve" =>
        /\ Len(heap) <= 1
        /\ \A r \in Requests : req[r].at # "handler" => req[r].extractor = extractor

\* ================================================= heading flush
\* C20: when the loop stands at a heading line outside a code block with a
\* non-empty buffer, the heading step appends two elements: the buffer, as
\* kind list in the list state and as kind paragraph otherwise, and then the
\* heading.
C20_HeadingFlushesBufferByState ==
    (/\ pc = "loop"
     /\ i <= Len(lines)
     /\ Branch(st, lines[i]) = "heading"
     /\ st.current_para # <<>>) =>
        LET next == HeadingStep(st, lines[i])
            n == Len(st.elements)
        IN  /\ Len(next.elements) = n + 2
            /\ SubSeq(next.elements, 1, n) = st.elements
            /\ next.elements[n + 1] = Element(IF st.in_list THEN "list" ELSE "paragraph", st.current_para)
            /\ IsHeadingKind(next.elements[n + 2].type)

\* C20, the paragraph case alone: outside the list state the buffer goes
\* out as a paragraph right before the heading.
C20_ParagraphBeforeHeading ==
    (/\ pc = "loop"
     /\ i <= Len(lines)
     /\ Branch(st, lines[i]) = "heading"
     /\ st.current_para # <<>>
     /\ ~st.in_list) =>
        LET next == HeadingStep(st, lines[i])
            n == Len(st.elements)
        IN  /\ Len(next.elements) = n + 2
            /\ next.elements[n + 1] = Element("paragraph", st.current_para)
            /\ IsHeadingKind(next.elements[n + 2].type)

\* ================================================= blank lines and lists
\* C21: outside a code block, a blank line read while the buffer is empty
\* emits no element.
C21_BlankLineWithEmptyBufferIsNoOp ==
    (/\ pc = "loop"
     /\ i <= Len(lines)
     /\ ~st.in_code_block
     /\ IsBlank(lines[i])
     /\ st.current_para = <<>>) =>
        ParseLine(st, lines[i]).elements = st.elements

\* C21, outside the list state: the blank line changes nothing at all.
C21_NoOpOutsideListState ==
    (/\ pc = "loop"
     /\ i <= Len(lines)
     /\ ~st.in_code_block
     /\ ~st.in_list
     /\ IsBlank(lines[i])
     /\ st.current_para = <<>>) =>
        ParseLine(st, lines[i]) = st

\* ================================================= the running counter
\* The start of the '+' range a hunk header names.
PlusStart(header) == int(Remove(Split(Split(header, " ")[3], ",")[1], "+"))

\* The position of the last hunk header before position k of the diff.
LastHunkBefore(differ, k) ==
    CHOOSE h \in 1..(k - 1) :
        /\ DiffBranch(differ[h]) = "hunk"
        /\ \A m \in (h + 1)..(k - 1) : DiffBranch(differ[m]) # "hunk"

\* The counter when position k of the diff is read: the '+' start of the
\* hunk, plus the context and added lines read since the header.
CounterAt(differ, k) ==
    LET h == LastHunkBefore(differ, k)
    IN  PlusStart(differ[h])
        + Cardinality({ m \in (h + 1)..(k - 1) : DiffBranch(differ[m]) \in {"context", "added"} })

RemovedPositions(differ) ==
    SelectSeq([k \in 1..Len(differ) |-> k], LAMBDA k : DiffBranch(differ[k]) = "removed")

C23_ListStartsWithListLine ==
    pc = "done" =>
        \A k \in 1..Len(result) :
            result[k].type = "list" =>
                /\ result[k].content # <<>>
                /\ ListMatch(SplitNL(result[k].content)[1])

\* C23 for inputs in which no heading line and no fence line follows a list
\* line.
C23_WithoutHeadingOrFenceAfterList ==
    (/\ pc = "done"
     /\ \A m, n \in 1..Len(lines) :
           (m < n /\ ListMatch(lines[m])) => ~(HeadingMatch(lines[n]).matched \/ IsFence(lines[n]))) =>
        \A k \in 1..Len(result) :
            result[k].type = "list" =>
                /\ result[k].content # <<>>
                /\ ListMatch(SplitNL(result[k].content)[1])

\* ================================================= line conservation
\* C24: the lines of text1 that are not removed are as many as the lines of
\* text2 that are not added, whatever the lines start with.
C24_LineConservation ==
    pc = "compared" =>
        comparison.total_lines_doc1 - comparison.removed_lines
            = comparison.total_lines_doc2 - comparison.added_lines

NoHeaderLikeLine(ls) ==
    \A k \in 1..Len(ls) : ~StartsWith(ls[k], <<"-", "-">>) /\ ~StartsWith(ls[k], <<"+", "+">>)

\* C24 for documents without a line that begins with two minus or two plus
\* signs.
C24_ConservationOfPlainLines ==
    (pc = "compared" /\ NoHeaderLikeLine(cs.lines1) /\ NoHeaderLikeLine(cs.lines2)) =>
        comparison.total_lines_doc1 - comparison.removed_lines
            = comparison.total_lines_doc2 - comparison.added_lines

\* ================================================= context_lines
\* What a result reports as different: the two counts, the types and
\* contents of the records, and the line numbers of the added records.
Reported(res) ==
    [added_lines |-> res.added_lines,
     removed_lines |-> res.removed_lines,
     records |-> [k \in 1..Len(res.diffs) |-> <<res.diffs[k].type, res.diffs[k].content>>],
     added_numbers |-> [k \in 1..Len(AddedRecords(res.diffs)) |-> AddedRecords(res.diffs)[k].line_number]]

\* C25: for the same two texts, every value of context_lines reports the
\* same differences.
C25_ContextLinesIrrelevant ==
    pc = "compared" =>
        \A n \in ContextChoices :
            Reported(compare_documents(text1, text2, n)) = Reported(comparison)

\* C25 for documents without a line that begins with two minus or two plus
\* signs.
C25_ContextLinesIrrelevantPlain ==
    (pc = "compared" /\ NoHeaderLikeLine(cs.lines1) /\ NoHeaderLikeLine(cs.lines2)) =>
        \A n \in ContextChoices :
            Reported(compare_documents(text1, text2, n)) = Reported(comparison)

\* ================================================= helper properties
\* C26: a helper call returns a value and raises nothing; with no key
\* variable set, create_concise_summary returns the basic summary and
\* smart_fix_ocr the rule-based result.
C26_HelpersDegradeToValue ==
    pc = "helped" =>
        /\ houtcome.kind = "returned"
        /\ (hcall.env = {} /\ hcall.helper = "create_concise_summary") =>
              houtcome.value = BasicSummary(hcall.num_pages, hcall.n_tables)
        /\ (hcall.env = {} /\ hcall.helper = "smart_fix_ocr") =>
              houtcome.value.method = "rule-based"

\* A settings object that does declare the two key fields.
KeyedSettings(anthropic, openai) ==
    [f \in SettingsFields \cup {"anthropic_api_key", "openai_api_key"} |->
        IF f = "anthropic_api_key" THEN anthropic
        ELSE IF f = "openai_api_key" THEN openai
        ELSE "default"]

\* C26, the bodies of the two helpers alone: given a settings object with the
\* two key fields, both return a value whatever the model replies, and the
\* documented fall-backs when no key is set or the reply cannot be used.
C26_BodiesDegradeToValue ==
    \A anthropic, openai \in {"", "key"} : \A reply \in Replies : \A n \in 0..MaxPages :
        LET s == KeyedSettings(anthropic, openai)
            summary == create_concise_summary(s, n, 0, reply)
            fixed == smart_fix_ocr(s, OcrText, reply)
            noKey == anthropic = "" /\ openai = ""
        IN  /\ summary.kind = "returned"
            /\ fixed.kind = "returned"
            /\ noKey => summary.value = BasicSummary(n, 0) /\ fixed.value = RuleBased(OcrText)
            /\ (~noKey /\ reply \in {"http error", "not json"}) =>
                  /\ summary.value = FallbackSummary(n, Decoded(reply).exception)
                  /\ fixed.value = RuleBased(OcrText)

\* ================================================= upload properties
\* C27: every request comes to its end with none of its upload files left,
\* and a batch has then gone through all of its files.
C27_UploadsEventuallyDeleted ==
    <>[](/\ handler.at = "closed"
         /\ upload_dir = {}
         /\ IsBatch(endpoint) => handler.done = handler.n)

\* C27 as a state property: no closed request has left an upload file.
C27_NothingLeftWhenClosed ==
    (pc = "request" /\ handler.at = "closed") => upload_dir = {}

\* C27 for the batch endpoints: every file is gone through and none is left,
\* whichever of them failed.
C27_BatchCleansUp ==
    (pc = "request" /\ handler.at = "closed" /\ IsBatch(endpoint)) =>
        (upload_dir = {} /\ handler.done = handler.n)

\* C27 for the endpoints that unlink in their finally clause: a request that
\* reached its try leaves nothing, whether the extraction raised or not.
C27_FinallyCleansUp ==
    (/\ pc = "request"
     /\ handler.at = "closed"
     /\ ~UsesBackgroundTask(endpoint)
     /\ handler.done = handler.n) =>
        upload_dir = {}

====
